---- MODULE Spec2Model ----
(***************************************************************************)
(* A model of fmin/lstsq/lsmr.py: the rotation primitive _sym_ortho and    *)
(* the LSMR driver lsmr.                                                   *)
(*                                                                         *)
(* Floating-point tensors are modelled by a small binary format: a finite  *)
(* value is an integer count of 1/Scale units with magnitude at most       *)
(* FltMax; every operation rounds toward zero, overflows to +-infinity     *)
(* and follows the IEEE rules for infinity and NaN (x/0, inf-inf, 0*inf,   *)
(* comparisons with NaN are false).  There is no signed zero.              *)
(***************************************************************************)
EXTENDS Integers, Sequences, FiniteSets, TLC

Scale == 1024
FltMax == 1048576

PInf == FltMax + 1
NInf == -(FltMax + 1)
NaN == FltMax + 2

Zero == 0
One == Scale
Num(k) == k * Scale
Frac(p, q) == (p * Scale) \div q

IsNaN(x) == x = NaN
IsInf(x) == x = PInf \/ x = NInf
IsFinite(x) == ~IsNaN(x) /\ ~IsInf(x)

IAbs(k) == IF k < 0 THEN -k ELSE k
ISgn(k) == IF k < 0 THEN -1 ELSE IF k > 0 THEN 1 ELSE 0

\* rounding of an exact integer result into the format: overflow saturates
Sat(k) == IF k > FltMax THEN PInf ELSE IF k < -FltMax THEN NInf ELSE k

Neg(x) == IF IsNaN(x) THEN NaN ELSE -x

\* torch.abs
Abs(x) == IF IsNaN(x) THEN NaN ELSE IAbs(x)

\* torch.sign: sign(0) = 0
Sign(x) == IF IsNaN(x) THEN NaN ELSE ISgn(x) * Scale

Add(x, y) ==
    IF IsNaN(x) \/ IsNaN(y) THEN NaN
    ELSE IF IsInf(x) THEN (IF IsInf(y) /\ y # x THEN NaN ELSE x)
    ELSE IF IsInf(y) THEN y
    ELSE Sat(x + y)

Sub(x, y) == Add(x, Neg(y))

\* |x| * |y| / Scale on finite magnitudes, without leaving 32 bits
MulMag(p, q) == (p \div Scale) * q + ((p % Scale) * q) \div Scale

Mul(x, y) ==
    IF IsNaN(x) \/ IsNaN(y) THEN NaN
    ELSE IF IsInf(x) \/ IsInf(y)
         THEN (IF x = 0 \/ y = 0 THEN NaN
               ELSE IF ISgn(x) * ISgn(y) > 0 THEN PInf ELSE NInf)
    ELSE Sat(ISgn(x) * ISgn(y) * MulMag(IAbs(x), IAbs(y)))

Div(x, y) ==
    IF IsNaN(x) \/ IsNaN(y) THEN NaN
    ELSE IF IsInf(x)
         THEN (IF IsInf(y) THEN NaN
               ELSE IF ISgn(x) * (IF y < 0 THEN -1 ELSE 1) > 0 THEN PInf ELSE NInf)
    ELSE IF IsInf(y) THEN 0
    ELSE IF y = 0
         THEN (IF x = 0 THEN NaN ELSE IF x > 0 THEN PInf ELSE NInf)
    ELSE Sat(ISgn(x) * ISgn(y) * ((IAbs(x) * Scale) \div IAbs(y)))

Square(x) == Mul(x, x)

RECURSIVE ISqrtIn(_, _, _)
ISqrtIn(k, lo, hi) ==
    IF lo >= hi THEN lo
    ELSE LET mid == (lo + hi + 1) \div 2
         IN IF mid * mid <= k THEN ISqrtIn(k, mid, hi) ELSE ISqrtIn(k, lo, mid - 1)

\* largest r with r*r <= k
ISqrt(k) == ISqrtIn(k, 0, 46340)

\* torch.sqrt
Sqrt(x) ==
    IF IsNaN(x) \/ x < 0 THEN NaN
    ELSE IF x = PInf THEN PInf
    ELSE ISqrt(x * Scale)

\* comparisons: false whenever an operand is NaN
Eq(x, y) == ~IsNaN(x) /\ ~IsNaN(y) /\ x = y
Lt(x, y) == ~IsNaN(x) /\ ~IsNaN(y) /\ x < y
Le(x, y) == ~IsNaN(x) /\ ~IsNaN(y) /\ x <= y
Gt(x, y) == Lt(y, x)
Ge(x, y) == Le(y, x)

\* torch.max / torch.min of two tensors: NaN propagates
Max(x, y) == IF IsNaN(x) \/ IsNaN(y) THEN NaN ELSE IF x >= y THEN x ELSE y
Min(x, y) == IF IsNaN(x) \/ IsNaN(y) THEN NaN ELSE IF x <= y THEN x ELSE y

\* torch.where(mask, p, q), elementwise
Where(mask, p, q) == [i \in DOMAIN mask |-> IF mask[i] THEN p[i] ELSE q[i]]

\* _sym_ortho, line 50: torch.logical_and(a.eq(0), ~stop)
case2_mask(a, stop) == [i \in DOMAIN a |-> Eq(a[i], Zero) /\ ~stop[i]]

\* a case-3 mask that forgets the cases already taken
case3_mask_nostop(b_abs, a_abs, stop) == [i \in DOMAIN b_abs |-> Gt(b_abs[i], a_abs[i])]

\* _sym_ortho, line 57: torch.logical_and(b_abs.gt(a_abs), ~stop)
case3_mask(b_abs, a_abs, stop) ==
    [i \in DOMAIN b_abs |-> Gt(b_abs[i], a_abs[i]) /\ ~stop[i]]

(***************************************************************************)
(* _sym_ortho(a, b) on tensors a, b of one shape (sequences of elements).  *)
(***************************************************************************)
sym_ortho(a, b) ==
    LET a_sign == [i \in DOMAIN a |-> Sign(a[i])]
        b_sign == [i \in DOMAIN a |-> Sign(b[i])]
        a_abs == [i \in DOMAIN a |-> Abs(a[i])]
        b_abs == [i \in DOMAIN a |-> Abs(b[i])]
        tau == [i \in DOMAIN a |-> Div(b[i], a[i])]
        c0 == [i \in DOMAIN a |-> Div(a_sign[i], Sqrt(Add(One, Square(tau[i]))))]
        s0 == [i \in DOMAIN a |-> Mul(c0[i], tau[i])]
        r0 == [i \in DOMAIN a |-> Div(a[i], c0[i])]
        \* case 1
        case1 == [i \in DOMAIN a |-> Eq(b[i], Zero)]
        c1 == Where(case1, a_sign, c0)
        s1 == Where(case1, [i \in DOMAIN a |-> Zero], s0)
        r1 == Where(case1, a_abs, r0)
        stop1 == case1
        \* case 2
        case2 == case2_mask(a, stop1)
        c2 == Where(case2, [i \in DOMAIN a |-> Zero], c1)
        s2 == Where(case2, b_sign, s1)
        r2 == Where(case2, b_abs, r1)
        stop2 == [i \in DOMAIN a |-> stop1[i] \/ case2[i]]
        \* case 3
        case3 == case3_mask(b_abs, a_abs, stop2)
        s3 == Where(case3,
                    [i \in DOMAIN a |->
                        Div(b_sign[i], Sqrt(Add(One, Div(One, Square(tau[i])))))],
                    s2)
        c3 == Where(case3, [i \in DOMAIN a |-> Div(s3[i], tau[i])], c2)
        r3 == Where(case3, [i \in DOMAIN a |-> Div(b[i], s3[i])], r2)
    IN [c |-> c3, s |-> s3, r |-> r3,
        case1 |-> case1, case2 |-> case2, case3 |-> case3]

\* the commented scalar reference of _sym_ortho (one element)
sym_ortho_ref(a, b) ==
    IF Eq(b, Zero) THEN [c |-> Sign(a), s |-> Zero, r |-> Abs(a), branch |-> 1]
    ELSE IF Eq(a, Zero) THEN [c |-> Zero, s |-> Sign(b), r |-> Abs(b), branch |-> 2]
    ELSE IF Gt(Abs(b), Abs(a))
         THEN LET tau == Div(a, b)
                  s == Div(Sign(b), Sqrt(Add(One, Mul(tau, tau))))
              IN [c |-> Mul(s, tau), s |-> s, r |-> Div(b, s), branch |-> 3]
    ELSE LET tau == Div(b, a)
             c == Div(Sign(a), Sqrt(Add(One, Mul(tau, tau))))
         IN [c |-> c, s |-> Mul(c, tau), r |-> Div(a, c), branch |-> 4]


\* one call on 0-dim tensors, as lsmr makes it: (c, s, r)
SymOrtho(a, b) ==
    LET t == sym_ortho(<<a>>, <<b>>) IN <<t.c[1], t.s[1], t.r[1]>>

(***************************************************************************)
(* Vectors (1-D tensors) and the dense operator behind aslinearoperator.   *)
(***************************************************************************)
None == <<>>
Some(v) == <<v>>

new_zeros(n) == [i \in 1..n |-> Zero]

RECURSIVE SumSeq(_)
SumSeq(q) == IF q = <<>> THEN Zero ELSE Add(SumSeq(SubSeq(q, 1, Len(q) - 1)), q[Len(q)])

\* tensor.norm(): the 2-norm
Norm(p) == Sqrt(SumSeq([i \in DOMAIN p |-> Mul(p[i], p[i])]))

\* k * p
VScale(k, p) == [i \in DOMAIN p |-> Mul(k, p[i])]

\* elementwise p + q and p - q with torch's broadcasting of a length-1 operand
Broadcastable(p, q) == Len(p) = Len(q) \/ Len(p) = 1 \/ Len(q) = 1
BLen(p, q) == IF Len(p) >= Len(q) THEN Len(p) ELSE Len(q)
At(p, i) == IF Len(p) = 1 THEN p[1] ELSE p[i]
VAdd(p, q) == [i \in 1..BLen(p, q) |-> Add(At(p, i), At(q, i))]
VSub(p, q) == [i \in 1..BLen(p, q) |-> Sub(At(p, i), At(q, i))]

Rows(M) == Len(M)
Cols(M) == Len(M[1])

\* A.matvec(p) and A.rmatvec(p) of a dense m x n matrix; a vector of the wrong
\* length makes the product raise
MatVecOK(M, p) == Len(p) = Cols(M)
MatVec(M, p) == [i \in 1..Rows(M) |-> SumSeq([j \in 1..Cols(M) |-> Mul(M[i][j], p[j])])]
RMatVecOK(M, p) == Len(p) = Rows(M)
RMatVec(M, p) == [j \in 1..Cols(M) |-> SumSeq([i \in 1..Rows(M) |-> Mul(M[i][j], p[i])])]

(***************************************************************************)
(* The arguments the model draws.                                          *)
(***************************************************************************)
MaxIter == 3
MaxEntry == 1

IntVec(p) == [i \in DOMAIN p |-> Num(p[i])]
IntMat(M) == [i \in DOMAIN M |-> IntVec(M[i])]

Matrices ==
    { IntMat(<<<<1, 0>>, <<0, 1>>>>),
      IntMat(<<<<2, 0>>, <<0, 1>>>>),
      IntMat(<<<<1, 1>>, <<1, 1>>>>),
      IntMat(<<<<1, 2>>, <<0, 1>>>>),
      IntMat(<<<<1, 0>>, <<1, 1>>, <<0, 1>>>>) }

Ones(n) == [i \in 1..n |-> One]
Unit(n) == [i \in 1..n |-> IF i = 1 THEN One ELSE Zero]
Alt(n) == [i \in 1..n |-> IF i = 1 THEN One ELSE IF i = 2 THEN Neg(One) ELSE Zero]

\* right-hand sides for m rows, two of them of the wrong length
BArgs(m) == { new_zeros(m), Unit(m), Ones(m), Alt(m), new_zeros(m + 1), Ones(m + 1) }

\* initial guesses for n columns, one of them of the wrong length
X0Args(n) == { None, Some(Unit(n)), Some(Alt(n)), Some(Ones(n + 1)) }

DampArgs == { Zero, One }
TolArgs == { Zero, Frac(1, 8) }
ConlimArgs == { Zero, Num(100) }
MaxiterArgs == { None } \cup { Some(k) : k \in 0..MaxIter }

RotArgs == { Num(k) : k \in -MaxEntry..MaxEntry } \cup { Num(5), Num(-3), Frac(1, 2), Frac(-3, 4) }

(***************************************************************************)
(* State.                                                                  *)
(*   pc                  where the call stands                             *)
(*   ra, rb, rout        a call of _sym_ortho: arguments and result        *)
(*   A, b, x0, damp, atol, btol, conlim, maxiter_arg                       *)
(*                       the arguments of a call of lsmr, as passed        *)
(*   mem                 tensor storage: the caller's b and x0, and the    *)
(*                       driver's own u, v, x, h, hbar                     *)
(*   u_ref, x_ref        the storage the locals u and x are bound to       *)
(*   log                 the norm of b and the operator calls, in order    *)
(*   evals               evaluations of the stopping disjunction           *)
(*   the rest            locals of lsmr, under their names                 *)
(***************************************************************************)
VARIABLES pc, ra, rb, rout,
          A, b, x0, damp, atol, btol, conlim, maxiter_arg,
          mem, u_ref, x_ref, log, evals,
          maxiter, itn, alpha, beta, normb,
          zetabar, alphabar, rho, rhobar, cbar, sbar,
          betadd, betad, rhodold, tautildeold, thetatilde, zeta, d,
          normA2, maxrbar, minrbar, normA, condA, normx, rhotemp,
          ctol, normr, normar

rotVars == <<ra, rb, rout>>
argVars == <<A, b, x0, damp, atol, btol, conlim, maxiter_arg>>
bidiagVars == <<alpha, beta>>
chainVars == <<zetabar, alphabar, rho, rhobar, cbar, sbar,
               betadd, betad, rhodold, tautildeold, thetatilde, zeta, d>>
estVars == <<normA2, maxrbar, minrbar, normA, condA, normx, rhotemp, normr, normar>>
vars == <<pc, rotVars, argVars, mem, u_ref, x_ref, log, evals, maxiter, itn,
          bidiagVars, normb, chainVars, estVars, ctol>>

NoMem == [b |-> <<>>, x0 |-> <<>>, u |-> <<>>, v |-> <<>>, x |-> <<>>,
          h |-> <<>>, hbar |-> <<>>]

\* the tensor a local is bound to
Deref(ref) == mem[ref]

\* locals not yet bound
Unbound ==
    /\ u_ref = "none" /\ x_ref = "none" /\ log = <<>> /\ evals = 0
    /\ maxiter = 0 /\ itn = 0 /\ alpha = Zero /\ beta = Zero /\ normb = Zero
    /\ zetabar = Zero /\ alphabar = Zero /\ rho = Zero /\ rhobar = Zero
    /\ cbar = Zero /\ sbar = Zero /\ betadd = Zero /\ betad = Zero
    /\ rhodold = Zero /\ tautildeold = Zero /\ thetatilde = Zero /\ zeta = Zero
    /\ d = Zero /\ normA2 = Zero /\ maxrbar = Zero /\ minrbar = Zero
    /\ normA = Zero /\ condA = Zero /\ normx = Zero /\ rhotemp = Zero
    /\ ctol = Zero /\ normr = Zero /\ normar = Zero

\* a call _sym_ortho(a, b) on a batch
InitSymOrtho ==
    /\ pc = "sym_entry"
    /\ ra \in RotArgs \X RotArgs
    /\ rb \in RotArgs \X RotArgs
    /\ rout = <<>>
    /\ A = <<>> /\ b = <<>> /\ x0 = None /\ damp = Zero /\ atol = Zero
    /\ btol = Zero /\ conlim = Zero /\ maxiter_arg = None
    /\ mem = NoMem
    /\ Unbound

\* a call lsmr(A, b, damp, atol, btol, conlim, maxiter, x0=x0)
InitLsmr ==
    /\ pc = "entry"
    /\ ra = <<>> /\ rb = <<>> /\ rout = <<>>
    /\ A \in Matrices
    /\ b \in BArgs(Rows(A))
    /\ x0 \in X0Args(Cols(A))
    /\ damp \in DampArgs
    /\ atol \in TolArgs
    /\ btol \in TolArgs
    /\ conlim \in ConlimArgs
    /\ maxiter_arg \in MaxiterArgs
    /\ mem = [NoMem EXCEPT !.b = b, !.x0 = IF x0 = None THEN <<>> ELSE x0[1]]
    /\ Unbound

Init == InitSymOrtho \/ InitLsmr

\* _sym_ortho, lines 30-62
SymOrthoCall ==
    /\ pc = "sym_entry"
    /\ rout' = sym_ortho(ra, rb)
    /\ pc' = "sym_done"
    /\ UNCHANGED <<ra, rb, argVars, mem, u_ref, x_ref, log, evals, maxiter, itn,
                   bidiagVars, normb, chainVars, estVars, ctol>>

\* lsmr, lines 147-181: the shape and the default iteration cap
Entry ==
    /\ pc = "entry"
    /\ maxiter' = IF maxiter_arg = None
                  THEN (IF Rows(A) <= Cols(A) THEN Rows(A) ELSE Cols(A))
                  ELSE maxiter_arg[1]
    /\ pc' = "residual"
    /\ UNCHANGED <<rotVars, argVars, mem, u_ref, x_ref, log, evals, itn,
                   bidiagVars, normb, chainVars, estVars, ctol>>

\* lsmr, lines 183-191: u, normb, x and the first beta
InitResidual ==
    /\ pc = "residual"
    /\ normb' = Norm(mem.b)
    /\ IF x0 = None
       THEN /\ mem' = [mem EXCEPT !.x = new_zeros(Cols(A))]
            /\ x_ref' = "x"
            /\ u_ref' = "b"
            /\ beta' = normb'
            /\ log' = <<"norm_b">>
            /\ pc' = "bidiag0"
       ELSE /\ x_ref' = "x0"
            /\ log' = <<"norm_b", "matvec">>
            /\ IF MatVecOK(A, mem.x0) /\ Broadcastable(mem.b, MatVec(A, mem.x0))
               THEN /\ mem' = [mem EXCEPT !.u = VSub(mem.b, MatVec(A, mem.x0))]
                    /\ u_ref' = "u"
                    /\ beta' = Norm(mem'.u)
                    /\ pc' = "bidiag0"
               ELSE /\ mem' = mem
                    /\ u_ref' = "b"
                    /\ beta' = beta
                    /\ pc' = "error"
    /\ UNCHANGED <<rotVars, argVars, evals, maxiter, itn, alpha, chainVars,
                   estVars, ctol>>

\* lsmr, lines 193-202: the first u, v and alpha
InitBidiag ==
    /\ pc = "bidiag0"
    /\ IF Gt(beta, Zero)
       THEN LET u1 == VScale(Div(One, beta), Deref(u_ref))
            IN /\ log' = Append(log, "rmatvec")
               /\ u_ref' = "u"
               /\ IF RMatVecOK(A, u1)
                  THEN LET v1 == RMatVec(A, u1)
                           alpha1 == Norm(v1)
                       IN /\ alpha' = alpha1
                          /\ mem' = [mem EXCEPT !.u = u1,
                                       !.v = IF Gt(alpha1, Zero)
                                             THEN VScale(Div(One, alpha1), v1)
                                             ELSE v1]
                          /\ pc' = "seed"
                  ELSE /\ alpha' = alpha
                       /\ mem' = [mem EXCEPT !.u = u1]
                       /\ pc' = "error"
       ELSE /\ mem' = [mem EXCEPT !.v = new_zeros(Cols(A))]
            /\ alpha' = Zero
            /\ pc' = "seed"
            /\ UNCHANGED <<log, u_ref>>
    /\ UNCHANGED <<rotVars, argVars, x_ref, evals, maxiter, itn, beta, normb,
                   chainVars, estVars, ctol>>

\* an early return that never fires
ExactSolutionNever(na) == Lt(na, Zero)

\* an early return that also fires for a small nonzero normar
ExactSolutionSmall(na) == Le(na, Num(4))

\* lsmr, line 246: normar == 0
ExactSolution(na) == Eq(na, Zero)

\* lsmr, lines 204-250: the seeds of the recurrences and the zero-iteration return
InitScalars ==
    /\ pc = "seed"
    /\ itn' = 0
    /\ zetabar' = Mul(alpha, beta)
    /\ alphabar' = alpha
    /\ rho' = One
    /\ rhobar' = One
    /\ cbar' = One
    /\ sbar' = Zero
    /\ mem' = [mem EXCEPT !.h = mem.v, !.hbar = new_zeros(Cols(A))]
    /\ betadd' = beta
    /\ betad' = Zero
    /\ rhodold' = One
    /\ tautildeold' = Zero
    /\ thetatilde' = Zero
    /\ zeta' = Zero
    /\ d' = Zero
    /\ normA2' = Mul(alpha, alpha)
    /\ maxrbar' = Zero
    /\ minrbar' = Mul(Frac(99, 100), FltMax)
    /\ normA' = Sqrt(normA2')
    /\ condA' = One
    /\ normx' = Zero
    /\ ctol' = IF Gt(conlim, Zero) THEN Div(One, conlim) ELSE Zero
    /\ normr' = beta
    /\ normar' = Mul(alpha, beta)
    /\ pc' = IF ExactSolution(normar') THEN "done" ELSE "loop"
    /\ UNCHANGED <<rotVars, argVars, u_ref, x_ref, log, evals, maxiter,
                   bidiagVars, normb, rhotemp>>

\* a transpose product made in every iteration
NeedsRmatvecAlways(bt) == TRUE

\* lsmr, line 275: the transpose product is made only for beta > 0
NeedsRmatvec(bt) == Gt(bt, Zero)

\* lsmr, lines 264-281: the next step of the bidiagonalization
BidiagStep ==
    /\ pc = "loop"
    /\ itn' = itn + 1
    /\ LET u1 == VScale(Neg(alpha), Deref(u_ref))
           u2 == VAdd(u1, MatVec(A, mem.v))
           beta1 == Norm(u2)
       IN /\ beta' = beta1
          /\ IF NeedsRmatvec(beta1)
             THEN LET u3 == VScale(Div(One, beta1), u2)
                      v1 == VScale(Neg(beta1), mem.v)
                      v2 == VAdd(v1, RMatVec(A, u3))
                      alpha1 == Norm(v2)
                  IN /\ alpha' = alpha1
                     /\ mem' = [mem EXCEPT ![u_ref] = u3,
                                  !.v = IF Gt(alpha1, Zero)
                                        THEN VScale(Div(One, alpha1), v2)
                                        ELSE v2]
                     /\ log' = log \o <<"matvec", "rmatvec">>
             ELSE /\ alpha' = alpha
                  /\ mem' = [mem EXCEPT ![u_ref] = u2]
                  /\ log' = Append(log, "matvec")
    /\ pc' = "rotate"
    /\ UNCHANGED <<rotVars, argVars, u_ref, x_ref, evals, maxiter, normb,
                   chainVars, estVars, ctol>>

\* a minrbar that follows rhobarold from the first iteration on
NextMinrbarAlways(k, mn, rhobarold) == Min(mn, rhobarold)

\* lsmr, line 348: minrbar follows rhobarold only after the first iteration
NextMinrbar(k, mn, rhobarold) == IF k > 1 THEN Min(mn, rhobarold) ELSE mn

\* lsmr, line 351
CondEst(mx, mn, rt) == Div(Max(mx, rt), Min(mn, rt))

\* lsmr, lines 287-357: the rotations, the update of h, hbar and x, the estimates.
\* Each local is bound once, in program order.
Rotations ==
    /\ pc = "rotate"
    /\ \E qhat \in {SymOrtho(alphabar, damp)} :
       \E chat \in {qhat[1]} : \E shat \in {qhat[2]} : \E alphahat \in {qhat[3]} :
       \E rhoold \in {rho} :
       \E q \in {SymOrtho(alphahat, beta)} :
       \E c \in {q[1]} : \E s \in {q[2]} : \E rho1 \in {q[3]} :
       \E thetanew \in {Mul(s, alpha)} :
       \E rhobarold \in {rhobar} :
       \E zetaold \in {zeta} :
       \E thetabar \in {Mul(sbar, rho1)} :
       \E rhotemp1 \in {Mul(cbar, rho1)} :
       \E qbar \in {SymOrtho(Mul(cbar, rho1), thetanew)} :
       \E cbar1 \in {qbar[1]} : \E sbar1 \in {qbar[2]} : \E rhobar1 \in {qbar[3]} :
       \E zeta1 \in {Mul(cbar1, zetabar)} :
       \E zetabar1 \in {Mul(Neg(sbar1), zetabar)} :
       \E hbar1 \in {VScale(Neg(Div(Mul(thetabar, rho1), Mul(rhoold, rhobarold))),
                            mem.hbar)} :
       \E hbar2 \in {VAdd(hbar1, mem.h)} :
       \E x1 \in {VAdd(Deref(x_ref), VScale(Div(zeta1, Mul(rho1, rhobar1)), hbar2))} :
       \E h1 \in {VScale(Neg(Div(thetanew, rho1)), mem.h)} :
       \E h2 \in {VAdd(h1, mem.v)} :
       \E betaacute \in {Mul(chat, betadd)} :
       \E betacheck \in {Mul(Neg(shat), betadd)} :
       \E betahat \in {Mul(c, betaacute)} :
       \E betadd1 \in {Mul(Neg(s), betaacute)} :
       \E thetatildeold \in {thetatilde} :
       \E qtilde \in {SymOrtho(rhodold, thetabar)} :
       \E ctildeold \in {qtilde[1]} : \E stildeold \in {qtilde[2]} :
       \E rhotildeold \in {qtilde[3]} :
       \E thetatilde1 \in {Mul(stildeold, rhobar1)} :
       \E rhodold1 \in {Mul(ctildeold, rhobar1)} :
       \E betad1 \in {Add(Mul(Neg(stildeold), betad), Mul(ctildeold, betahat))} :
       \E tautildeold1 \in {Div(Sub(zetaold, Mul(thetatildeold, tautildeold)),
                                rhotildeold)} :
       \E taud \in {Div(Sub(zeta1, Mul(thetatilde1, tautildeold1)), rhodold1)} :
       \E d1 \in {Add(d, Mul(betacheck, betacheck))} :
       \E normA2a \in {Add(normA2, Mul(beta, beta))} :
       \E maxrbar1 \in {Max(maxrbar, rhobarold)} :
       \E minrbar1 \in {NextMinrbar(itn, minrbar, rhobarold)} :
          /\ rho' = rho1
          /\ alphabar' = Mul(c, alpha)
          /\ rhotemp' = rhotemp1
          /\ cbar' = cbar1
          /\ sbar' = sbar1
          /\ rhobar' = rhobar1
          /\ zeta' = zeta1
          /\ zetabar' = zetabar1
          /\ mem' = [mem EXCEPT !.hbar = hbar2, ![x_ref] = x1, !.h = h2]
          /\ betadd' = betadd1
          /\ thetatilde' = thetatilde1
          /\ rhodold' = rhodold1
          /\ betad' = betad1
          /\ tautildeold' = tautildeold1
          /\ d' = d1
          /\ normr' = Sqrt(Add(Add(d1, Square(Sub(betad1, taud))),
                               Mul(betadd1, betadd1)))
          /\ normA' = Sqrt(normA2a)
          /\ normA2' = Add(normA2a, Mul(alpha, alpha))
          /\ maxrbar' = maxrbar1
          /\ minrbar' = minrbar1
          /\ condA' = CondEst(maxrbar1, minrbar1, rhotemp1)
          /\ normar' = Abs(zetabar1)
          /\ normx' = Norm(x1)
    /\ pc' = "test"
    /\ UNCHANGED <<rotVars, argVars, u_ref, x_ref, log, evals, maxiter, itn,
                   bidiagVars, normb, ctol>>

\* lsmr, lines 362-366: the quantities of the stopping rules
test1 == Div(normr, normb)
test2 == IF Eq(Mul(normA, normr), Zero) THEN PInf
         ELSE Div(normar, Mul(normA, normr))
test3 == Div(One, condA)
t1 == Div(test1, Add(One, Div(Mul(normA, normx), normb)))
rtol == Add(btol, Div(Mul(Mul(atol, normA), normx), normb))

\* a stopping rule without the test on rtol
stop_no_rtol ==
    \/ itn >= maxiter
    \/ Le(Add(One, test3), One)
    \/ Le(Add(One, test2), One)
    \/ Le(Add(One, t1), One)
    \/ Le(test3, ctol)
    \/ Le(test2, atol)

\* lsmr, lines 374-380
stop ==
    \/ itn >= maxiter
    \/ Le(Add(One, test3), One)
    \/ Le(Add(One, test2), One)
    \/ Le(Add(One, t1), One)
    \/ Le(test3, ctol)
    \/ Le(test2, atol)
    \/ Le(test1, rtol)

\* lsmr, lines 362-402: the convergence test that ends an iteration
StopTest ==
    /\ pc = "test"
    /\ evals' = evals + 1
    /\ pc' = IF stop THEN "done" ELSE "loop"
    /\ UNCHANGED <<rotVars, argVars, mem, u_ref, x_ref, log, maxiter, itn,
                   bidiagVars, normb, chainVars, estVars, ctol>>

Next ==
    \/ SymOrthoCall
    \/ Entry
    \/ InitResidual
    \/ InitBidiag
    \/ InitScalars
    \/ BidiagStep
    \/ Rotations
    \/ StopTest

Spec == Init /\ [][Next]_vars

(***************************************************************************)
(* Properties.                                                             *)
(***************************************************************************)
InLsmr == pc \notin {"sym_entry", "sym_done"}
InLoop == pc \in {"loop", "rotate", "test"}
IsZeroVec(p) == \A i \in DOMAIN p : p[i] = Zero
Count(q, e) == Len(SelectSeq(q, LAMBDA z : z = e))
ShapesMatch == Len(b) = Rows(A) /\ (x0 # None => Len(x0[1]) = Cols(A))
\* the value the caller passed as x0, or the zero vector
StartX == IF x0 = None THEN new_zeros(Cols(A)) ELSE x0[1]

\* C1 as stated: with b the zero vector of length m, and x0 omitted or any x0 of
\* length n, lsmr returns iteration count 0 and x equal to x0 (or zero).
C1_ZeroRhsAnyX0 ==
    (pc = "done" /\ IsZeroVec(b) /\ ShapesMatch)
        => (itn = 0 /\ Deref(x_ref) = StartX)

\* C1 amended: with b the zero vector of length m, and x0 omitted or an x0 of
\* length n with A x0 = 0, lsmr never enters the main loop and returns iteration
\* count 0 and x equal to x0 (or zero).
C1_ZeroRhs ==
    (InLsmr /\ IsZeroVec(b) /\ ShapesMatch
        /\ (x0 # None => IsZeroVec(MatVec(A, x0[1]))))
        => /\ pc \in {"entry", "residual", "bidiag0", "seed", "done"}
           /\ itn = 0
           /\ (pc = "done" => Deref(x_ref) = StartX)

\* C1 witness: a zero right-hand side and a nonzero x0 in the null space of A,
\* returned unchanged after zero iterations.
C1_Witness ==
    /\ pc = "done" /\ IsZeroVec(b) /\ ShapesMatch
    /\ x0 # None /\ ~IsZeroVec(x0[1])
    /\ itn = 0 /\ Deref(x_ref) = x0[1]

\* sign with sign(0) = +1
SignPlus(x) == IF x < 0 THEN Neg(One) ELSE One

\* C2: _sym_ortho(a, b) is (sign(a), 0, |a|) with sign(0) = +1 whenever b = 0
\* (so (0,0) gives (1,0,0) and (5,0) gives (1,0,5)), and (0, sign(b), |b|)
\* whenever a = 0 and b # 0 (so (0,-3) gives (0,-1,3)).
C2_EdgeCases ==
    pc = "sym_done" =>
        \A i \in DOMAIN ra :
            /\ rb[i] = Zero =>
                 /\ rout.c[i] = SignPlus(ra[i])
                 /\ rout.s[i] = Zero
                 /\ rout.r[i] = Abs(ra[i])
            /\ (ra[i] = Zero /\ rb[i] # Zero) =>
                 /\ rout.c[i] = Zero
                 /\ rout.s[i] = Sign(rb[i])
                 /\ rout.r[i] = Abs(rb[i])

\* C3: the returned iteration count never exceeds maxiter, for every integer
\* maxiter passed and for the default min(m, n).
C3_IterationCap == pc = "done" => itn <= maxiter

\* C4: at the end of initialization, alpha*beta = 0 makes lsmr return at once with
\* iteration count 0, normar = 0, x equal to x0 (or zero) and no further operator
\* call; alpha*beta # 0 makes it enter the main loop.
C4_ZeroIterationReturn ==
    [][pc = "seed" =>
         /\ Eq(Mul(alpha, beta), Zero) =>
              /\ pc' = "done"
              /\ itn' = 0
              /\ normar' = Zero
              /\ Deref(x_ref)' = StartX
              /\ log' = log
         /\ ~Eq(Mul(alpha, beta), Zero) => pc' = "loop"]_vars

\* C4 witness: a zero-iteration return with a nonzero residual that is orthogonal
\* to the range of A (beta > 0, alpha = 0).
C4_Witness ==
    pc = "done" /\ itn = 0 /\ Gt(beta, Zero) /\ Eq(alpha, Zero) /\ Eq(normar, Zero)

\* C5: once seeded, condA >= 1; after an iteration max(maxrbar, rhotemp) >=
\* min(minrbar, rhotemp) with both non-negative; across an iteration maxrbar never
\* decreases, minrbar never increases and is unchanged in iteration 1, and normA2
\* never decreases.
C5_CondInvariant ==
    /\ [](pc \in {"loop", "rotate", "test", "done"} =>
            /\ Ge(condA, One)
            /\ (itn >= 1 /\ pc # "rotate") =>
                 /\ Ge(Max(maxrbar, rhotemp), Min(minrbar, rhotemp))
                 /\ Ge(Min(minrbar, rhotemp), Zero))
    /\ [][pc = "rotate" =>
            /\ Ge(maxrbar', maxrbar)
            /\ Le(minrbar', minrbar)
            /\ (itn = 1 => minrbar' = minrbar)
            /\ Ge(normA2', normA2)]_vars

\* C5 witness: after a second iteration, with minrbar lowered and condA above 1.
C5_Witness ==
    /\ pc = "test" /\ itn = 2
    /\ Lt(minrbar, Mul(Frac(99, 100), FltMax))
    /\ Gt(condA, One) /\ IsFinite(condA)

\* C6: with b of a length other than m, or x0 of a length other than n, lsmr raises
\* at entry: no norm is computed, no operator call is made, and neither the
\* initialization nor the main loop is reached.
C6_FailFast ==
    (InLsmr /\ ~ShapesMatch) => (pc \in {"entry", "error"} /\ log = <<>>)

\* the stopping disjunction with the condition-number test written test3 <= 1/conlim
StopAsStated ==
    \/ itn >= maxiter
    \/ Le(Add(One, test3), One)
    \/ Le(Add(One, test2), One)
    \/ Le(Add(One, Div(test1, Add(One, Div(Mul(normA, normx), normb)))), One)
    \/ Le(test3, Div(One, conlim))
    \/ Le(test2, atol)
    \/ Le(test1, rtol)

\* the same with the limit the code keeps: 1/conlim for conlim > 0, else 0
StopAmended ==
    \/ itn >= maxiter
    \/ Le(Add(One, test3), One)
    \/ Le(Add(One, test2), One)
    \/ Le(Add(One, Div(test1, Add(One, Div(Mul(normA, normx), normb)))), One)
    \/ Le(test3, IF Gt(conlim, Zero) THEN Div(One, conlim) ELSE Zero)
    \/ Le(test2, atol)
    \/ Le(test1, rtol)

\* C7 as stated: the loop exits at the end of an iteration iff one of itn >= maxiter,
\* 1+test3 <= 1, 1+test2 <= 1, 1+test1/(1+normA*normx/normb) <= 1,
\* test3 <= 1/conlim, test2 <= atol, test1 <= rtol holds, also for conlim = 0.
C7_StopRuleAsStated ==
    [][pc = "test" => (pc' = "done" <=> StopAsStated)]_vars

\* C7 amended: the same with the condition-number test read as test3 <= ctol, where
\* ctol = 1/conlim for conlim > 0 and ctol = 0 otherwise; the disjunction is
\* evaluated once per iteration, after the updates of that iteration.
C7_StopRule ==
    [][/\ pc = "test" =>
            /\ pc' \in {"done", "loop"}
            /\ pc' = "done" <=> StopAmended
            /\ evals = itn - 1 /\ evals' = itn
       /\ pc # "test" => evals' = evals
       /\ pc = "loop" => evals = itn]_vars

\* C7 witness: with atol = btol = conlim = 0 the loop went on after one evaluation
\* and stopped at a later one, below the iteration cap.
C7_Witness ==
    /\ pc = "done" /\ itn >= 2 /\ itn < maxiter /\ evals = itn
    /\ atol = Zero /\ btol = Zero /\ conlim = Zero

\* the case _sym_ortho's masks select for element i: 1, 2, 3, or 4 for the default
Selected(o, i) ==
    IF o.case1[i] THEN 1 ELSE IF o.case2[i] THEN 2 ELSE IF o.case3[i] THEN 3 ELSE 4

\* C8: for every element of a batch the masks of _sym_ortho select exactly one case,
\* the one the priority-ordered conditional selects (1 iff b = 0; 2 iff b # 0 and
\* a = 0; 3 iff a # 0, b # 0 and |b| > |a|; default iff |a| >= |b| > 0); its formula
\* divides by no zero (its divisors a, tau, tau^2, s or c are nonzero and the result
\* is finite); and the element's result is that of
\* the call on the element alone.
C8_CaseSelection ==
    pc = "sym_done" =>
        \A i \in DOMAIN ra :
            LET a1 == ra[i]
                b1 == rb[i]
                sel == Selected(rout, i)
                ref == sym_ortho_ref(a1, b1)
                one == sym_ortho(<<a1>>, <<b1>>)
            IN /\ ~(rout.case1[i] /\ rout.case2[i])
               /\ ~(rout.case1[i] /\ rout.case3[i])
               /\ ~(rout.case2[i] /\ rout.case3[i])
               /\ sel = ref.branch
               /\ sel = 1 <=> b1 = Zero
               /\ sel = 2 <=> (b1 # Zero /\ a1 = Zero)
               /\ sel = 3 <=> (a1 # Zero /\ b1 # Zero /\ Abs(b1) > Abs(a1))
               /\ sel = 4 <=> (Abs(a1) >= Abs(b1) /\ Abs(b1) > Zero)
               /\ IsFinite(rout.c[i]) /\ IsFinite(rout.s[i]) /\ IsFinite(rout.r[i])
               /\ sel = 3 => /\ a1 # Zero
                             /\ Square(Div(b1, a1)) # Zero
                             /\ rout.s[i] # Zero
               /\ sel = 4 => (a1 # Zero /\ rout.c[i] # Zero)
               /\ sel # 3 => /\ rout.c[i] = ref.c
                             /\ rout.s[i] = ref.s
                             /\ rout.r[i] = ref.r
               /\ rout.c[i] = one.c[1] /\ rout.s[i] = one.s[1] /\ rout.r[i] = one.r[1]

\* C8 witness: a batch whose first element takes case 3 and whose second takes
\* case 2.
C8_Witness ==
    pc = "sym_done" /\ Selected(rout, 1) = 3 /\ Selected(rout, 2) = 2

\* C9: initialization calls matvec once iff x0 is supplied and rmatvec once iff the
\* first beta > 0; an iteration calls matvec once and then rmatvec at most once,
\* only for a new beta > 0 (else v and alpha keep their values); no call follows the
\* stopping decision; a return with iteration count k has made k + [x0 supplied]
\* matvec calls and at most k + 1 rmatvec calls.
C9_CallOrder ==
    [][/\ pc = "residual" =>
            log' = <<"norm_b">> \o (IF x0 # None THEN <<"matvec">> ELSE <<>>)
       /\ pc = "bidiag0" =>
            log' = log \o (IF Gt(beta, Zero) THEN <<"rmatvec">> ELSE <<>>)
       /\ pc = "loop" =>
            /\ log' = log \o <<"matvec">>
                          \o (IF Gt(beta', Zero) THEN <<"rmatvec">> ELSE <<>>)
            /\ ~Gt(beta', Zero) => (alpha' = alpha /\ mem'.v = mem.v)
       /\ pc \in {"entry", "seed", "rotate", "test"} => log' = log
       /\ pc' = "done" =>
            /\ Count(log', "matvec") = itn' + (IF x0 # None THEN 1 ELSE 0)
            /\ Count(log', "rmatvec") <= itn' + 1]_vars

\* C9 witness: a return after two iterations from a supplied x0, one of which made
\* no rmatvec call.
C9_Witness ==
    /\ pc = "done" /\ itn = 2 /\ x0 # None
    /\ Count(log, "matvec") = 3 /\ Count(log, "rmatvec") = 2

\* C10: throughout a call the tensors the caller passed as b and as x0 hold the
\* values they held at the call.
C10_InputsUnchanged ==
    InLsmr => (mem.b = b /\ (x0 # None => mem.x0 = x0[1]))
====
